---- MODULE Spec2Model ----
(***************************************************************************)
(* Hyper Friends Zone: the relational store of the schema migration        *)
(* (tables, constraints, cascades, row level security policies) and the    *)
(* view handlers that call it (Post, CreatePost, Friends).                 *)
(*                                                                         *)
(* A store statement is issued by a caller (auth.uid()).  The store        *)
(* evaluates the policy of the (table, operation) pair against the caller  *)
(* and the row, then the constraints of the table, and executes or rejects *)
(* the statement as a whole.                                               *)
(***************************************************************************)
EXTENDS Integers, Sequences, FiniteSets, TLC

\* ------------------------------------------------------------------------
\* Bounds of the model
\* ------------------------------------------------------------------------

\* number of rows (generated ids) the store creates in one behaviour
MaxRows == 3

\* number of rows created by statements sent to the store directly
MaxDirectRows == 2

\* number of posts CreatePost makes
MaxPosts == 1

\* number of friend requests the Friends views send
MaxRequests == 2

\* number of store calls of Post components in flight at one time
MaxCalls == 2

\* number of friendships rows up to which statements are sent to the store
\* directly
MaxFriendships == 1

\* the authenticated identities (auth.users); each owns one profile at start
Users == {"A", "B", "C"}

\* profiles.bio values an update may write
Bios == {0, 1}

\* friendships.status values of the CHECK list
Statuses == {"pending", "accepted", "rejected"}

\* friendships columns an update may set
FriendshipColumns == {"status", "user_id_1", "user_id_2", "requested_by"}

VARIABLES
    profiles,           \* table profiles: set of [id, bio]
    posts,              \* table posts: set of [id, user_id]
    comments,           \* table comments: set of [id, post_id, user_id]
    likes,              \* table likes: set of [id, post_id, user_id]
    follows,            \* table follows: set of [id, follower_id, following_id]
    friendships,        \* table friendships: set of [id, user_id_1, user_id_2, status, requested_by]
    nextId,             \* gen_random_uuid(): the next fresh row id
    mounted,            \* Post component of each user: post.id it renders, 0 if none
    likesState,         \* Post component of each user: the likes state (string[])
    calls,              \* Post component of each user: store calls awaiting completion
    commentsState,      \* Post component of each user: ids of the comments state
    commentText,        \* Post component of each user: the commentText state
    followingIds,       \* Friends view of each user: followingIds
    friendIds,          \* Friends view of each user: friendIds (ids of friends)
    pendingRequestIds,  \* Friends view of each user: pendingRequestIds
    friendRequests,     \* Friends view of each user: ids of the friendRequests rows
    last                \* the statement or handler that ran last, and its result

tables == <<profiles, posts, comments, likes, follows, friendships>>
commentView == <<commentsState, commentText>>
postView == <<mounted, likesState, calls, commentsState, commentText>>
friendsView == <<followingIds, friendIds, pendingRequestIds, friendRequests>>
vars == <<profiles, posts, comments, likes, follows, friendships, nextId,
          mounted, likesState, calls, commentsState, commentText,
          followingIds, friendIds, pendingRequestIds, friendRequests, last>>

ProfileIds == {p.id : p \in profiles}
PostIds == {p.id : p \in posts}
Ids == 1..MaxRows

\* ------------------------------------------------------------------------
\* Row level security policies (uid is auth.uid(), r the row)
\* ------------------------------------------------------------------------

ProfilesSelectPolicy(uid, r) == TRUE
\* mutant: the policy written as (true)
OwnProfileAnyone(uid, r) == TRUE
\* "Users can update own profile" states (auth.uid() = id) for USING and for
\* WITH CHECK
OwnProfile(uid, r) == uid = r.id
ProfilesUpdateUsing(uid, r) == OwnProfile(uid, r)
ProfilesUpdateCheck(uid, r) == OwnProfile(uid, r)

PostsSelectPolicy(uid, r) == TRUE
\* mutant: the insert policy written as WITH CHECK (true)
PostsInsertAnyone(uid, r) == TRUE
PostsInsertCheck(uid, r) == uid = r.user_id
\* mutant: the update policy written with WITH CHECK (true)
PostsUpdateCheckAnyone(uid, r) == TRUE
PostsUpdateUsing(uid, r) == uid = r.user_id
PostsUpdateCheck(uid, r) == uid = r.user_id
PostsDeleteUsing(uid, r) == uid = r.user_id

CommentsSelectPolicy(uid, r) == TRUE
CommentsInsertCheck(uid, r) == uid = r.user_id
CommentsDeleteUsing(uid, r) == uid = r.user_id

LikesSelectPolicy(uid, r) == TRUE
LikesInsertCheck(uid, r) == uid = r.user_id
\* mutant: the delete policy written as USING (true)
LikesDeleteAnyone(uid, r) == TRUE
LikesDeleteUsing(uid, r) == uid = r.user_id

FollowsSelectPolicy(uid, r) == TRUE
FollowsInsertCheck(uid, r) == uid = r.follower_id
FollowsDeleteUsing(uid, r) == uid = r.follower_id

\* mutant: the select policy written as USING (true), as for the other tables
FriendshipsSelectAnyone(uid, r) == TRUE
\* mutant: the insert policy without its participant clause
FriendshipsInsertRequesterOnly(uid, r) == uid = r.requested_by
FriendshipsSelectPolicy(uid, r) == uid = r.user_id_1 \/ uid = r.user_id_2

FriendshipsInsertCheck(uid, r) ==
    uid = r.requested_by /\ (uid = r.user_id_1 \/ uid = r.user_id_2)
FriendshipsUpdateUsing(uid, r) == uid = r.user_id_1 \/ uid = r.user_id_2
FriendshipsUpdateCheck(uid, r) == uid = r.user_id_1 \/ uid = r.user_id_2
\* no DELETE policy is created for friendships: with row level security
\* enabled, a delete sees no row
FriendshipsDeleteUsing(uid, r) == FALSE

\* ------------------------------------------------------------------------
\* Table constraints of a candidate row r: CHECK, UNIQUE, REFERENCES
\* ------------------------------------------------------------------------

PostsForeignKeys(r) == r.user_id \in ProfileIds

CommentsForeignKeys(r) == r.post_id \in PostIds /\ r.user_id \in ProfileIds

\* mutant: the table without UNIQUE(post_id, user_id)
LikesNotUnique(r) == TRUE
LikesUnique(r) ==
    ~\E l \in likes : l.id # r.id /\ l.post_id = r.post_id /\ l.user_id = r.user_id
LikesForeignKeys(r) == r.post_id \in PostIds /\ r.user_id \in ProfileIds

\* mutant: the table without CHECK (follower_id != following_id)
FollowsCheckNothing(r) == TRUE
FollowsCheck(r) == r.follower_id # r.following_id
FollowsUnique(r) ==
    ~\E f \in follows : /\ f.id # r.id
                        /\ f.follower_id = r.follower_id
                        /\ f.following_id = r.following_id
FollowsForeignKeys(r) == r.follower_id \in ProfileIds /\ r.following_id \in ProfileIds

\* mutant: the table without CHECK (user_id_1 != user_id_2)
FriendshipsCheckStatusOnly(r) == r.status \in Statuses
FriendshipsCheck(r) == r.status \in Statuses /\ r.user_id_1 # r.user_id_2
FriendshipsForeignKeys(r) ==
    /\ r.user_id_1 \in ProfileIds
    /\ r.user_id_2 \in ProfileIds
    /\ r.requested_by \in ProfileIds

\* ------------------------------------------------------------------------
\* What a SELECT of a whole table returns to caller uid
\* ------------------------------------------------------------------------

SelectProfiles(uid) == {r \in profiles : ProfilesSelectPolicy(uid, r)}
SelectPosts(uid) == {r \in posts : PostsSelectPolicy(uid, r)}
SelectComments(uid) == {r \in comments : CommentsSelectPolicy(uid, r)}
SelectLikes(uid) == {r \in likes : LikesSelectPolicy(uid, r)}
SelectFollows(uid) == {r \in follows : FollowsSelectPolicy(uid, r)}
SelectFriendships(uid) == {r \in friendships : FriendshipsSelectPolicy(uid, r)}

\* ------------------------------------------------------------------------
\* Results of a statement
\*   "ok"      executed            "hidden"  USING hid every matching row
\*   "none"    no row matched      "denied"  WITH CHECK refused the new row
\*   "check" / "unique" / "fk"     a table constraint refused the new row
\*   "net"     the call never reached the store
\* ------------------------------------------------------------------------

Outcome(op, res) == [op |-> op, res |-> res]

\* the store evaluates WITH CHECK, then CHECK, then UNIQUE, then REFERENCES
WriteResult(policy, check, unique, fk) ==
    IF ~policy THEN "denied"
    ELSE IF ~check THEN "check"
    ELSE IF ~unique THEN "unique"
    ELSE IF ~fk THEN "fk"
    ELSE "ok"

\* a delete or update of the rows matched, of which the policy shows hit
FilterResult(matched, hit) ==
    IF matched = {} THEN "none" ELSE IF hit = {} THEN "hidden" ELSE "ok"

\* an insert the store accepts takes a fresh id; the model stops creating
\* rows after MaxRows of them
CanCreate(res) == res = "ok" => nextId <= MaxRows

\* ON DELETE CASCADE: the rows left once the posts in P and the profiles in
\* U are gone.  Cascades are not subject to row level security.
\* mutant: comments.post_id without ON DELETE CASCADE
CascadeCommentsOfUsers(P, U) == {r \in comments : r.user_id \notin U}
CascadeComments(P, U) == {r \in comments : r.post_id \notin P /\ r.user_id \notin U}
CascadeLikes(P, U) == {r \in likes : r.post_id \notin P /\ r.user_id \notin U}
\* mutant: following_id without ON DELETE CASCADE
CascadeFollowsOfFollower(U) == {r \in follows : r.follower_id \notin U}
CascadeFollows(U) == {r \in follows : r.follower_id \notin U /\ r.following_id \notin U}
CascadeFriendships(U) ==
    {r \in friendships : r.user_id_1 \notin U /\ r.user_id_2 \notin U /\ r.requested_by \notin U}

\* ------------------------------------------------------------------------
\* Store statements issued by caller c: the result, and the effect on the
\* tables
\* ------------------------------------------------------------------------

\* insert into posts (user_id) values (uid)
PostRow(uid) == [id |-> nextId, user_id |-> uid]
ResInsertPost(c, uid) ==
    WriteResult(PostsInsertCheck(c, PostRow(uid)), TRUE, TRUE, PostsForeignKeys(PostRow(uid)))
StmtInsertPost(c, uid) ==
    /\ CanCreate(ResInsertPost(c, uid))
    /\ posts' = IF ResInsertPost(c, uid) = "ok" THEN posts \cup {PostRow(uid)} ELSE posts
    /\ nextId' = IF ResInsertPost(c, uid) = "ok" THEN nextId + 1 ELSE nextId
    /\ UNCHANGED <<profiles, comments, likes, follows, friendships>>

\* update posts set user_id = nuid where id = pid
PostsHit(c, pid) == {r \in posts : r.id = pid /\ PostsUpdateUsing(c, r)}
ResUpdatePost(c, pid, nuid) ==
    IF PostsHit(c, pid) = {}
    THEN FilterResult({r \in posts : r.id = pid}, {})
    ELSE WriteResult(PostsUpdateCheck(c, [id |-> pid, user_id |-> nuid]), TRUE, TRUE,
                     PostsForeignKeys([id |-> pid, user_id |-> nuid]))
StmtUpdatePost(c, pid, nuid) ==
    /\ posts' = IF ResUpdatePost(c, pid, nuid) = "ok"
                  THEN (posts \ PostsHit(c, pid)) \cup {[id |-> pid, user_id |-> nuid]}
                  ELSE posts
    /\ UNCHANGED <<profiles, comments, likes, follows, friendships, nextId>>

\* delete from posts where (the rows of M match)
ResDeletePosts(c, M) == FilterResult(M, {r \in M : PostsDeleteUsing(c, r)})
StmtDeletePosts(c, M) ==
    LET gone == {r.id : r \in {r \in M : PostsDeleteUsing(c, r)}}
    IN /\ posts' = {r \in posts : r.id \notin gone}
       /\ comments' = CascadeComments(gone, {})
       /\ likes' = CascadeLikes(gone, {})
       /\ UNCHANGED <<profiles, follows, friendships, nextId>>

\* insert into comments (post_id, user_id) values (pid, uid)
CommentRow(pid, uid) == [id |-> nextId, post_id |-> pid, user_id |-> uid]
ResInsertComment(c, pid, uid) ==
    WriteResult(CommentsInsertCheck(c, CommentRow(pid, uid)), TRUE, TRUE,
                CommentsForeignKeys(CommentRow(pid, uid)))
StmtInsertComment(c, pid, uid) ==
    /\ CanCreate(ResInsertComment(c, pid, uid))
    /\ comments' = IF ResInsertComment(c, pid, uid) = "ok"
                     THEN comments \cup {CommentRow(pid, uid)} ELSE comments
    /\ nextId' = IF ResInsertComment(c, pid, uid) = "ok" THEN nextId + 1 ELSE nextId
    /\ UNCHANGED <<profiles, posts, likes, follows, friendships>>

\* delete from comments where (the rows of M match)
ResDeleteComments(c, M) == FilterResult(M, {r \in M : CommentsDeleteUsing(c, r)})
StmtDeleteComments(c, M) ==
    /\ comments' = {r \in comments : ~(r \in M /\ CommentsDeleteUsing(c, r))}
    /\ UNCHANGED <<profiles, posts, likes, follows, friendships, nextId>>

\* insert into likes (post_id, user_id) values (pid, uid)
LikeRow(pid, uid) == [id |-> nextId, post_id |-> pid, user_id |-> uid]
ResInsertLike(c, pid, uid) ==
    WriteResult(LikesInsertCheck(c, LikeRow(pid, uid)), TRUE,
                LikesUnique(LikeRow(pid, uid)), LikesForeignKeys(LikeRow(pid, uid)))
StmtInsertLike(c, pid, uid) ==
    /\ CanCreate(ResInsertLike(c, pid, uid))
    /\ likes' = IF ResInsertLike(c, pid, uid) = "ok"
                  THEN likes \cup {LikeRow(pid, uid)} ELSE likes
    /\ nextId' = IF ResInsertLike(c, pid, uid) = "ok" THEN nextId + 1 ELSE nextId
    /\ UNCHANGED <<profiles, posts, comments, follows, friendships>>

\* delete from likes where (the rows of M match)
ResDeleteLikes(c, M) == FilterResult(M, {r \in M : LikesDeleteUsing(c, r)})
StmtDeleteLikes(c, M) ==
    /\ likes' = {r \in likes : ~(r \in M /\ LikesDeleteUsing(c, r))}
    /\ UNCHANGED <<profiles, posts, comments, follows, friendships, nextId>>

\* insert into follows (follower_id, following_id) values (f, g)
FollowRow(f, g) == [id |-> nextId, follower_id |-> f, following_id |-> g]
ResInsertFollow(c, f, g) ==
    WriteResult(FollowsInsertCheck(c, FollowRow(f, g)), FollowsCheck(FollowRow(f, g)),
                FollowsUnique(FollowRow(f, g)), FollowsForeignKeys(FollowRow(f, g)))
StmtInsertFollow(c, f, g) ==
    /\ CanCreate(ResInsertFollow(c, f, g))
    /\ follows' = IF ResInsertFollow(c, f, g) = "ok"
                    THEN follows \cup {FollowRow(f, g)} ELSE follows
    /\ nextId' = IF ResInsertFollow(c, f, g) = "ok" THEN nextId + 1 ELSE nextId
    /\ UNCHANGED <<profiles, posts, comments, likes, friendships>>

\* delete from follows where (the rows of M match)
ResDeleteFollows(c, M) == FilterResult(M, {r \in M : FollowsDeleteUsing(c, r)})
StmtDeleteFollows(c, M) ==
    /\ follows' = {r \in follows : ~(r \in M /\ FollowsDeleteUsing(c, r))}
    /\ UNCHANGED <<profiles, posts, comments, likes, friendships, nextId>>

\* insert into friendships (user_id_1, user_id_2, requested_by, status)
\* values (u1, u2, rb, st)
FriendshipRow(u1, u2, rb, st) ==
    [id |-> nextId, user_id_1 |-> u1, user_id_2 |-> u2, status |-> st, requested_by |-> rb]
ResInsertFriendship(c, u1, u2, rb, st) ==
    WriteResult(FriendshipsInsertCheck(c, FriendshipRow(u1, u2, rb, st)),
                FriendshipsCheck(FriendshipRow(u1, u2, rb, st)), TRUE,
                FriendshipsForeignKeys(FriendshipRow(u1, u2, rb, st)))
StmtInsertFriendship(c, u1, u2, rb, st) ==
    LET res == ResInsertFriendship(c, u1, u2, rb, st) IN
    /\ CanCreate(res)
    /\ friendships' = IF res = "ok" THEN friendships \cup {FriendshipRow(u1, u2, rb, st)}
                                     ELSE friendships
    /\ nextId' = IF res = "ok" THEN nextId + 1 ELSE nextId
    /\ UNCHANGED <<profiles, posts, comments, likes, follows>>

\* the row r with column col set to val
SetColumn(r, col, val) ==
    CASE col = "status" -> [r EXCEPT !.status = val]
      [] col = "user_id_1" -> [r EXCEPT !.user_id_1 = val]
      [] col = "user_id_2" -> [r EXCEPT !.user_id_2 = val]
      [] col = "requested_by" -> [r EXCEPT !.requested_by = val]

\* update friendships set col = val where id = fid
FriendshipsHit(c, fid) == {r \in friendships : r.id = fid /\ FriendshipsUpdateUsing(c, r)}
ResUpdateFriendship(c, fid, col, val) ==
    IF FriendshipsHit(c, fid) = {}
    THEN FilterResult({r \in friendships : r.id = fid}, {})
    ELSE LET new == SetColumn(CHOOSE r \in FriendshipsHit(c, fid) : TRUE, col, val)
         IN WriteResult(FriendshipsUpdateCheck(c, new), FriendshipsCheck(new), TRUE,
                        FriendshipsForeignKeys(new))
StmtUpdateFriendship(c, fid, col, val) ==
    /\ friendships' =
           IF ResUpdateFriendship(c, fid, col, val) = "ok"
           THEN (friendships \ FriendshipsHit(c, fid))
                    \cup {SetColumn(r, col, val) : r \in FriendshipsHit(c, fid)}
           ELSE friendships
    /\ UNCHANGED <<profiles, posts, comments, likes, follows, nextId>>

\* delete from friendships where id = fid
ResDeleteFriendship(c, fid) ==
    FilterResult({r \in friendships : r.id = fid},
                 {r \in friendships : r.id = fid /\ FriendshipsDeleteUsing(c, r)})
StmtDeleteFriendship(c, fid) ==
    /\ friendships' = {r \in friendships : ~(r.id = fid /\ FriendshipsDeleteUsing(c, r))}
    /\ UNCHANGED <<profiles, posts, comments, likes, follows, nextId>>

\* rows that reference profile u
RowsOf(u) ==
    {r \in posts : r.user_id = u}
        \cup {r \in comments : r.user_id = u}
        \cup {r \in likes : r.user_id = u}
        \cup {r \in follows : r.follower_id = u \/ r.following_id = u}
        \cup {r \in friendships : r.user_id_1 = u \/ r.user_id_2 = u \/ r.requested_by = u}

\* auth.users: the authenticated identities; one may be without a profile
\* row
AuthUsers == Users

\* update profiles set id = nid, bio = bio where id = pid
ProfilesHit(c, pid) == {r \in profiles : r.id = pid /\ ProfilesUpdateUsing(c, r)}
ResUpdateProfile(c, pid, nid, bio) ==
    IF ProfilesHit(c, pid) = {}
    THEN FilterResult({r \in profiles : r.id = pid}, {})
    ELSE WriteResult(ProfilesUpdateCheck(c, [id |-> nid, bio |-> bio]), TRUE,
                     nid = pid \/ nid \notin ProfileIds,
                     nid \in AuthUsers /\ (nid = pid \/ RowsOf(pid) = {}))
StmtUpdateProfile(c, pid, nid, bio) ==
    /\ profiles' = IF ResUpdateProfile(c, pid, nid, bio) = "ok"
                     THEN (profiles \ ProfilesHit(c, pid)) \cup {[id |-> nid, bio |-> bio]}
                     ELSE profiles
    /\ UNCHANGED <<posts, comments, likes, follows, friendships, nextId>>

\* delete from profiles where id = u (service role; no policy lets a user
\* delete a profile): every row that references the profile goes with it
StmtDeleteProfile(u) ==
    LET gone == {r.id : r \in {r \in posts : r.user_id = u}}
    IN /\ profiles' = {r \in profiles : r.id # u}
       /\ posts' = {r \in posts : r.id \notin gone}
       /\ comments' = CascadeComments(gone, {u})
       /\ likes' = CascadeLikes(gone, {u})
       /\ follows' = CascadeFollows({u})
       /\ friendships' = CascadeFriendships({u})
       /\ UNCHANGED nextId

\* ------------------------------------------------------------------------
\* Statements sent to the store directly (any caller, any payload)
\* ------------------------------------------------------------------------

\* the model stops direct inserts after MaxDirectRows rows
CanInsert(res) == res = "ok" => nextId <= MaxDirectRows

InsertPost(c, uid) ==
    /\ CanInsert(ResInsertPost(c, uid))
    /\ StmtInsertPost(c, uid)
    /\ last' = Outcome("insertPost", ResInsertPost(c, uid))
    /\ UNCHANGED <<postView, friendsView>>

UpdatePost(c, pid, nuid) ==
    /\ StmtUpdatePost(c, pid, nuid)
    /\ last' = Outcome("updatePost", ResUpdatePost(c, pid, nuid))
    /\ UNCHANGED <<postView, friendsView>>

DeletePost(c, pid) ==
    /\ StmtDeletePosts(c, {r \in posts : r.id = pid})
    /\ last' = Outcome("deletePost", ResDeletePosts(c, {r \in posts : r.id = pid}))
    /\ UNCHANGED <<postView, friendsView>>

InsertComment(c, pid, uid) ==
    /\ CanInsert(ResInsertComment(c, pid, uid))
    /\ StmtInsertComment(c, pid, uid)
    /\ last' = Outcome("insertComment", ResInsertComment(c, pid, uid))
    /\ UNCHANGED <<postView, friendsView>>

DeleteComment(c, cid) ==
    /\ StmtDeleteComments(c, {r \in comments : r.id = cid})
    /\ last' = Outcome("deleteComment", ResDeleteComments(c, {r \in comments : r.id = cid}))
    /\ UNCHANGED <<postView, friendsView>>

InsertLike(c, pid, uid) ==
    /\ CanInsert(ResInsertLike(c, pid, uid))
    /\ StmtInsertLike(c, pid, uid)
    /\ last' = Outcome("insertLike", ResInsertLike(c, pid, uid))
    /\ UNCHANGED <<postView, friendsView>>

DeleteLike(c, lid) ==
    /\ StmtDeleteLikes(c, {r \in likes : r.id = lid})
    /\ last' = Outcome("deleteLike", ResDeleteLikes(c, {r \in likes : r.id = lid}))
    /\ UNCHANGED <<postView, friendsView>>

InsertFollow(c, f, g) ==
    /\ CanInsert(ResInsertFollow(c, f, g))
    /\ StmtInsertFollow(c, f, g)
    /\ last' = Outcome("insertFollow", ResInsertFollow(c, f, g))
    /\ UNCHANGED <<postView, friendsView>>

DeleteFollow(c, fid) ==
    /\ StmtDeleteFollows(c, {r \in follows : r.id = fid})
    /\ last' = Outcome("deleteFollow", ResDeleteFollows(c, {r \in follows : r.id = fid}))
    /\ UNCHANGED <<postView, friendsView>>

InsertFriendship(c, u1, u2, rb, st) ==
    LET res == ResInsertFriendship(c, u1, u2, rb, st) IN
    /\ CanInsert(res)
    /\ Cardinality(friendships) < MaxFriendships
    /\ StmtInsertFriendship(c, u1, u2, rb, st)
    /\ last' = Outcome("insertFriendship", res)
    /\ UNCHANGED <<postView, friendsView>>

UpdateFriendship(c, fid, col, val) ==
    /\ StmtUpdateFriendship(c, fid, col, val)
    /\ last' = Outcome("updateFriendship", ResUpdateFriendship(c, fid, col, val))
    /\ UNCHANGED <<postView, friendsView>>

DeleteFriendship(c, fid) ==
    /\ StmtDeleteFriendship(c, fid)
    /\ last' = Outcome("deleteFriendship", ResDeleteFriendship(c, fid))
    /\ UNCHANGED <<postView, friendsView>>

UpdateProfile(c, pid, nid, bio) ==
    /\ StmtUpdateProfile(c, pid, nid, bio)
    /\ last' = Outcome("updateProfile", ResUpdateProfile(c, pid, nid, bio))
    /\ UNCHANGED <<postView, friendsView>>

DeleteProfile(u) ==
    /\ u \in ProfileIds
    /\ StmtDeleteProfile(u)
    /\ last' = Outcome("deleteProfile", IF RowsOf(u) = {} THEN "ok" ELSE "cascade")
    /\ UNCHANGED <<postView, friendsView>>

\* ------------------------------------------------------------------------
\* CreatePost and Post components of user u (src/components)
\* ------------------------------------------------------------------------

\* text a user may have typed into a form
Texts == {"", "hi"}

Includes(seq, x) == \E i \in 1..Len(seq) : seq[i] = x
\* mutant: the filter keeps every id
WithoutNothing(seq, x) == seq
Without(seq, x) == SelectSeq(seq, LAMBDA y : y # x)
RemoveAt(seq, i) == SubSeq(seq, 1, i - 1) \o SubSeq(seq, i + 1, Len(seq))

\* data.map(like => like.user_id) of the rows R, in the order of insertion
RECURSIVE UserIdsOf(_)
UserIdsOf(R) ==
    IF R = {} THEN <<>>
    ELSE LET r == CHOOSE x \in R : \A y \in R : x.id <= y.id
         IN <<r.user_id>> \o UserIdsOf(R \ {r})

InFlight == Len(calls["A"]) + Len(calls["B"]) + Len(calls["C"])

\* CreatePost.handleSubmit: insert the post as the current user.  The model
\* makes its posts before it mounts its Post component.
handleSubmit(u, content, net) ==
    /\ Cardinality(posts) < MaxPosts
    /\ \A v \in Users : mounted[v] = 0
    /\ IF content = "" THEN /\ UNCHANGED <<tables, nextId>>
                            /\ last' = Outcome("handleSubmit", "return")
       ELSE IF net THEN /\ UNCHANGED <<tables, nextId>>
                        /\ last' = Outcome("handleSubmit", "net")
       ELSE /\ StmtInsertPost(u, u)
            /\ last' = Outcome("handleSubmit", ResInsertPost(u, u))
    /\ UNCHANGED <<postView, friendsView>>

Call(kind, snap) == [kind |-> kind, snap |-> snap, st |-> "sent", res |-> "none", data |-> <<>>]

\* loadComments of u's Post for post pid: the comments of the post
loadComments(u, pid) == {r.id : r \in {r \in SelectComments(u) : r.post_id = pid}}

\* the feed of user u renders a Post for post pid; its effect starts
\* loadLikes and runs loadComments.  The model follows one Post component,
\* whoever mounts it.
MountPost(u, pid) ==
    /\ \A v \in Users : mounted[v] = 0
    /\ pid \in {r.id : r \in SelectPosts(u)}
    /\ InFlight < MaxCalls
    /\ mounted' = [mounted EXCEPT ![u] = pid]
    /\ calls' = [calls EXCEPT ![u] = Append(@, Call("load", <<>>))]
    /\ commentsState' = [commentsState EXCEPT ![u] = loadComments(u, pid)]
    /\ last' = Outcome("loadLikes", "sent")
    /\ UNCHANGED <<tables, nextId, likesState, commentText, friendsView>>

\* Post.handleLike up to its await: isLiked is read from the rendered likes,
\* which the continuation uses again
handleLike(u) ==
    /\ mounted[u] # 0
    /\ InFlight < MaxCalls
    /\ calls' = [calls EXCEPT ![u] =
                    Append(@, Call(IF Includes(likesState[u], u) THEN "delete" ELSE "insert",
                                   likesState[u]))]
    /\ last' = Outcome("handleLike", "sent")
    /\ UNCHANGED <<tables, nextId, mounted, likesState, commentView, friendsView>>

\* the store executes call i of user u's Post, or the call is lost (net)
ExecCall(u, i, net) ==
    /\ i \in 1..Len(calls[u])
    /\ calls[u][i].st = "sent"
    /\ LET k == calls[u][i].kind
           pid == mounted[u]
           mine == {r \in likes : r.post_id = pid /\ r.user_id = u}
           res == IF net THEN "net"
                  ELSE IF k = "insert" THEN ResInsertLike(u, pid, u)
                  ELSE IF k = "delete" THEN ResDeleteLikes(u, mine)
                  ELSE "ok"
           data == IF k = "load" /\ ~net
                   THEN UserIdsOf({r \in SelectLikes(u) : r.post_id = pid})
                   ELSE <<>>
       IN /\ IF net \/ k = "load" THEN UNCHANGED <<tables, nextId>>
             ELSE IF k = "insert" THEN StmtInsertLike(u, pid, u)
             ELSE StmtDeleteLikes(u, mine)
          /\ calls' = [calls EXCEPT ![u][i] = [@ EXCEPT !.st = "done", !.res = res, !.data = data]]
          /\ last' = Outcome(k, res)
    /\ UNCHANGED <<mounted, likesState, commentView, friendsView>>

\* the code after the await of call i: loadLikes sets likes when it got data;
\* handleLike sets likes from the list it read before the await, whatever the
\* store answered
ResumeCall(u, i) ==
    /\ i \in 1..Len(calls[u])
    /\ calls[u][i].st = "done"
    /\ LET k == calls[u][i] IN
       /\ likesState' = [likesState EXCEPT ![u] =
              IF k.kind = "load" THEN (IF k.res = "ok" THEN k.data ELSE @)
              ELSE IF k.kind = "delete" THEN Without(k.snap, u)
              ELSE Append(k.snap, u)]
       /\ last' = Outcome(IF k.kind = "load" THEN "setLikes"
                          ELSE IF k.kind = "insert" THEN "liked" ELSE "unliked", k.res)
    /\ calls' = [calls EXCEPT ![u] = RemoveAt(@, i)]
    /\ UNCHANGED <<tables, nextId, mounted, commentView, friendsView>>

\* Post.handleDeletePost of the Post that u's feed renders for post pid, whose
\* delete button is shown on u's own posts; ok is the answer to confirm().
\* The result is "cascade" when the store also removed comments or likes
\* that other users wrote on the post.  (onDelete is the parent's.)
handleDeletePost(u, pid, ok, net) ==
    /\ \E r \in SelectPosts(u) : r.id = pid /\ r.user_id = u
    /\ LET M == {r \in posts : r.id = pid}
           others == \E r \in comments \cup likes : r.post_id = pid /\ r.user_id # u
       IN IF ~ok THEN /\ UNCHANGED <<tables, nextId>>
                      /\ last' = Outcome("handleDeletePost", "return")
          ELSE IF net THEN /\ UNCHANGED <<tables, nextId>>
                           /\ last' = Outcome("handleDeletePost", "net")
          ELSE /\ StmtDeletePosts(u, M)
               /\ last' = Outcome("handleDeletePost",
                                  IF ResDeletePosts(u, M) = "ok" /\ others
                                  THEN "cascade" ELSE ResDeletePosts(u, M))
    /\ UNCHANGED <<postView, friendsView>>

\* the comment input of u's Post changes: setCommentText(text)
setCommentText(u, text) ==
    /\ mounted[u] # 0
    /\ commentText[u] # text
    /\ commentText' = [commentText EXCEPT ![u] = text]
    /\ last' = Outcome("setCommentText", "ok")
    /\ UNCHANGED <<tables, nextId, mounted, likesState, calls, commentsState, friendsView>>

\* Post.handleComment: insert the comment as the current user; on success
\* clear the input and run loadComments, on an error only log it
handleComment(u, net) ==
    /\ mounted[u] # 0
    /\ commentText[u] # ""
    /\ UNCHANGED <<mounted, likesState, calls, friendsView>>
    /\ LET res == IF net THEN "net" ELSE ResInsertComment(u, mounted[u], u) IN
       /\ IF net THEN UNCHANGED <<tables, nextId>>
          ELSE StmtInsertComment(u, mounted[u], u)
       /\ commentText' = [commentText EXCEPT ![u] = IF res = "ok" THEN "" ELSE @]
       /\ commentsState' = [commentsState EXCEPT ![u] =
                               IF res = "ok" THEN loadComments(u, mounted[u])' ELSE @]
       /\ last' = Outcome("handleComment", res)

\* Post.handleDeleteComment(commentId = cid), offered on the user's own
\* comments among those shown; loadComments runs when there is no error
handleDeleteComment(u, cid, net) ==
    /\ mounted[u] # 0
    /\ cid \in commentsState[u]
    /\ \E r \in comments : r.id = cid /\ r.user_id = u
    /\ UNCHANGED <<mounted, likesState, calls, commentText, friendsView>>
    /\ IF net THEN UNCHANGED <<tables, nextId>>
       ELSE StmtDeleteComments(u, {r \in comments : r.id = cid})
    /\ commentsState' = [commentsState EXCEPT ![u] =
                            IF net THEN @ ELSE loadComments(u, mounted[u])']
    /\ last' = Outcome("handleDeleteComment",
                       IF net THEN "net" ELSE ResDeleteComments(u, {r \in comments : r.id = cid}))

\* ------------------------------------------------------------------------
\* Friends view of user u (src/components/Friends.tsx)
\* ------------------------------------------------------------------------

\* loadFollowing: the ids u follows
loadFollowing(u) == {r.following_id : r \in {r \in SelectFollows(u) : r.follower_id = u}}

\* mutant: the query without its user_id_2 alternative
loadFriendsAsFirst(u) ==
    LET data == {r \in SelectFriendships(u) : r.status = "accepted" /\ r.user_id_1 = u}
        ids == {r.user_id_2 : r \in data}
    IN {p.id : p \in {p \in SelectProfiles(u) : p.id \in ids}}

\* loadFriends: the other participant of every accepted friendship of u
loadFriends(u) ==
    LET data == {r \in SelectFriendships(u) :
                    r.status = "accepted" /\ (r.user_id_1 = u \/ r.user_id_2 = u)}
        ids == {IF r.user_id_1 = u THEN r.user_id_2 ELSE r.user_id_1 : r \in data}
    IN {p.id : p \in {p \in SelectProfiles(u) : p.id \in ids}}

\* loadFriendRequests: the pending rows u received, and whom u asked
loadReceived(u) ==
    {r.id : r \in {r \in SelectFriendships(u) : r.status = "pending" /\ r.user_id_2 = u}}
loadSent(u) ==
    {r.user_id_2 : r \in {r \in SelectFriendships(u) : r.status = "pending" /\ r.requested_by = u}}

\* loadData with the tables as they are after this step
loadData(u) ==
    /\ followingIds' = [followingIds EXCEPT ![u] = loadFollowing(u)']
    /\ friendIds' = [friendIds EXCEPT ![u] = loadFriends(u)']
    /\ friendRequests' = [friendRequests EXCEPT ![u] = loadReceived(u)']
    /\ pendingRequestIds' = [pendingRequestIds EXCEPT ![u] = loadSent(u)']

\* the view is shown or its tab changes: the effect runs loadData
MountFriends(u) ==
    /\ UNCHANGED <<tables, nextId>>
    /\ loadData(u)
    /\ last' = Outcome("loadData", "ok")
    /\ UNCHANGED postView

\* handleFollow(userId = v), offered for another user: unfollow when the view
\* has v in followingIds, follow otherwise; the result of the store call is
\* not read and followingIds is changed in place
handleFollow(u, v, net) ==
    /\ v # u
    /\ LET mine == {r \in follows : r.follower_id = u /\ r.following_id = v}
           res == IF net THEN "net"
                  ELSE IF v \in followingIds[u] THEN ResDeleteFollows(u, mine)
                  ELSE ResInsertFollow(u, u, v)
       IN /\ IF net THEN UNCHANGED <<tables, nextId>>
             ELSE IF v \in followingIds[u] THEN StmtDeleteFollows(u, mine)
             ELSE StmtInsertFollow(u, u, v)
          /\ followingIds' = [followingIds EXCEPT ![u] =
                                 IF v \in @ THEN @ \ {v} ELSE @ \cup {v}]
          /\ last' = Outcome("handleFollow", res)
    /\ UNCHANGED <<friendIds, pendingRequestIds, friendRequests, postView>>

\* handleFriendRequest(userId = v), offered by renderUser for another user
\* who is neither a friend nor pending
handleFriendRequest(u, v, net) ==
    /\ v # u
    /\ v \notin friendIds[u]
    /\ v \notin pendingRequestIds[u]
    /\ Cardinality(friendships) < MaxRequests
    /\ LET res == IF net THEN "net" ELSE ResInsertFriendship(u, u, v, u, "pending") IN
       /\ IF net THEN UNCHANGED <<tables, nextId>>
          ELSE StmtInsertFriendship(u, u, v, u, "pending")
       /\ pendingRequestIds' = [pendingRequestIds EXCEPT ![u] =
                                   IF res = "ok" THEN @ \cup {v} ELSE @]
       /\ last' = Outcome("handleFriendRequest", res)
    /\ UNCHANGED <<followingIds, friendIds, friendRequests, postView>>

\* handleAcceptRequest(requestId = rid), offered for the rows of friendRequests
handleAcceptRequest(u, rid, net) ==
    /\ rid \in friendRequests[u]
    /\ IF net THEN UNCHANGED <<tables, nextId>>
       ELSE StmtUpdateFriendship(u, rid, "status", "accepted")
    /\ loadData(u)
    /\ last' = Outcome("handleAcceptRequest",
                       IF net THEN "net" ELSE ResUpdateFriendship(u, rid, "status", "accepted"))
    /\ UNCHANGED postView

\* handleRejectRequest(requestId = rid), offered for the rows of friendRequests
handleRejectRequest(u, rid, net) ==
    /\ rid \in friendRequests[u]
    /\ IF net THEN UNCHANGED <<tables, nextId>>
       ELSE StmtDeleteFriendship(u, rid)
    /\ loadData(u)
    /\ last' = Outcome("handleRejectRequest",
                       IF net THEN "net" ELSE ResDeleteFriendship(u, rid))
    /\ UNCHANGED postView

\* ------------------------------------------------------------------------
\* Initial state: every user has signed up, the tables are otherwise empty,
\* no view is mounted
\* ------------------------------------------------------------------------

Init ==
    /\ profiles = {[id |-> u, bio |-> 0] : u \in Users}
    /\ posts = {}
    /\ comments = {}
    /\ likes = {}
    /\ follows = {}
    /\ friendships = {}
    /\ nextId = 1
    /\ mounted = [u \in Users |-> 0]
    /\ likesState = [u \in Users |-> <<>>]
    /\ calls = [u \in Users |-> <<>>]
    /\ commentsState = [u \in Users |-> {}]
    /\ commentText = [u \in Users |-> ""]
    /\ followingIds = [u \in Users |-> {}]
    /\ friendIds = [u \in Users |-> {}]
    /\ pendingRequestIds = [u \in Users |-> {}]
    /\ friendRequests = [u \in Users |-> {}]
    /\ last = Outcome("init", "ok")

\* ------------------------------------------------------------------------
\* Specifications
\* ------------------------------------------------------------------------

\* posts, comments, likes and follows under statements of any caller
StoreNext ==
    \/ \E c \in Users, uid \in Users : InsertPost(c, uid)
    \/ \E c \in Users, pid \in Ids : DeletePost(c, pid)
    \/ \E c \in Users, pid \in Ids, uid \in Users : InsertComment(c, pid, uid)
    \/ \E c \in Users, cid \in Ids : DeleteComment(c, cid)
    \/ \E c \in Users, pid \in Ids, uid \in Users : InsertLike(c, pid, uid)
    \/ \E c \in Users, lid \in Ids : DeleteLike(c, lid)
    \/ \E c \in Users, f \in Users, g \in Users : InsertFollow(c, f, g)
    \/ \E c \in Users, fid \in Ids : DeleteFollow(c, fid)

SpecStore == Init /\ [][StoreNext]_vars

\* friendships under statements of any caller
FriendshipNext ==
    \/ \E c \in Users, u1 \in Users, u2 \in Users, rb \in Users, st \in {"pending", "accepted"} :
           InsertFriendship(c, u1, u2, rb, st)
    \/ \E c \in Users, fid \in Ids, val \in Statuses : UpdateFriendship(c, fid, "status", val)
    \/ \E c \in Users, fid \in Ids, col \in FriendshipColumns \ {"status"}, val \in Users :
           UpdateFriendship(c, fid, col, val)
    \/ \E c \in Users, fid \in Ids : DeleteFriendship(c, fid)

SpecFriendship == Init /\ [][FriendshipNext]_vars

\* profiles and posts, the tables with an update policy on the owner's
\* rows, under statements of any caller
ProfileNext ==
    \/ \E c \in Users, uid \in Users : InsertPost(c, uid)
    \/ \E c \in Users, pid \in Ids, nuid \in Users : UpdatePost(c, pid, nuid)
    \/ \E c \in Users, pid \in Users, nid \in Users, bio \in Bios : UpdateProfile(c, pid, nid, bio)
    \/ \E u \in Users : DeleteProfile(u)

SpecProfile == Init /\ [][ProfileNext]_vars

\* every table under the statements the views issue for their own user on
\* the rows they show, and the deletion of profiles
CascadeNext ==
    \/ \E c \in Users : InsertPost(c, c)
    \/ \E c \in Users, pid \in PostIds : InsertComment(c, pid, c)
    \/ \E c \in Users, pid \in PostIds : InsertLike(c, pid, c)
    \/ \E c \in Users, g \in Users : InsertFollow(c, c, g)
    \/ \E c \in Users, v \in Users : InsertFriendship(c, c, v, c, "pending")
    \/ \E c \in Users, r \in friendships : UpdateFriendship(c, r.id, "status", "accepted")
    \/ \E u \in Users, pid \in PostIds, ok \in BOOLEAN, net \in BOOLEAN :
           handleDeletePost(u, pid, ok, net)
    \/ \E u \in Users : DeleteProfile(u)

SpecCascade == Init /\ [][CascadeNext]_vars

\* the Post components with overlapping calls, posts made by CreatePost
PostNext ==
    \/ \E u \in Users, content \in Texts, net \in BOOLEAN : handleSubmit(u, content, net)
    \/ \E u \in Users, pid \in Ids : MountPost(u, pid)
    \/ \E u \in Users : handleLike(u)
    \/ \E u \in Users, i \in 1..MaxCalls, net \in BOOLEAN : ExecCall(u, i, net)
    \/ \E u \in Users, i \in 1..MaxCalls : ResumeCall(u, i)

SpecPost == Init /\ [][PostNext]_vars

\* the Post components used one action at a time: a user clicks once the
\* previous call of the component has completed
SeqNext ==
    \/ \E u \in Users, content \in Texts, net \in BOOLEAN : handleSubmit(u, content, net)
    \/ \E u \in Users, pid \in Ids : MountPost(u, pid)
    \/ \E u \in Users : calls[u] = <<>> /\ handleLike(u)
    \/ \E u \in Users, i \in 1..MaxCalls, net \in BOOLEAN : ExecCall(u, i, net)
    \/ \E u \in Users, i \in 1..MaxCalls : ResumeCall(u, i)

SpecSeq == Init /\ [][SeqNext]_vars

\* the Post components with overlapping calls, every one of which reaches the
\* store and returns without an error
SucceedNext ==
    \/ \E u \in Users, content \in Texts, net \in BOOLEAN : handleSubmit(u, content, net)
    \/ \E u \in Users, pid \in Ids : MountPost(u, pid)
    \/ \E u \in Users : handleLike(u)
    \/ \E u \in Users, i \in 1..MaxCalls :
           ExecCall(u, i, FALSE) /\ calls'[u][i].res \in {"ok", "none"}
    \/ \E u \in Users, i \in 1..MaxCalls : ResumeCall(u, i)

SpecSucceed == Init /\ [][SucceedNext]_vars

\* the Post components used one action at a time, with their comment form
CommentNext ==
    \/ SeqNext
    \/ \E u \in Users, text \in Texts : setCommentText(u, text)
    \/ \E u \in Users, net \in BOOLEAN : handleComment(u, net)
    \/ \E u \in Users, cid \in Ids, net \in BOOLEAN : handleDeleteComment(u, cid, net)

SpecComment == Init /\ [][CommentNext]_vars

\* the Friends views
FriendsNext ==
    \/ \E u \in Users : MountFriends(u)
    \/ \E u \in Users, v \in Users, net \in BOOLEAN : handleFriendRequest(u, v, net)
    \/ \E u \in Users, rid \in Ids, net \in BOOLEAN : handleAcceptRequest(u, rid, net)
    \/ \E u \in Users, rid \in Ids, net \in BOOLEAN : handleRejectRequest(u, rid, net)

SpecFriends == Init /\ [][FriendsNext]_vars

\* the Friends views used to follow and unfollow
FollowNext ==
    \/ \E u \in Users : MountFriends(u)
    \/ \E u \in Users, v \in Users, net \in BOOLEAN : handleFollow(u, v, net)

SpecFollow == Init /\ [][FollowNext]_vars

\* ------------------------------------------------------------------------
\* Properties
\* ------------------------------------------------------------------------

\* every caller's read of posts, comments, likes and follows returns every row
ReadsReturnEveryRow ==
    \A c \in Users :
        /\ SelectPosts(c) = posts
        /\ SelectComments(c) = comments
        /\ SelectLikes(c) = likes
        /\ SelectFollows(c) = follows

\* a delete statement of caller c removes from its table only rows c owns
DeleteOnlyOwn ==
    /\ last'.op \in {"deletePost", "deleteComment", "deleteLike", "deleteFollow"}
    /\ <<posts, comments, likes, follows>>' # <<posts, comments, likes, follows>>
    =>  \A c \in Users, id \in Ids :
            /\ DeletePost(c, id) => \A r \in posts \ posts' : r.user_id = c
            /\ DeleteComment(c, id) => \A r \in comments \ comments' : r.user_id = c
            /\ DeleteLike(c, id) => \A r \in likes \ likes' : r.user_id = c
            /\ DeleteFollow(c, id) => \A r \in follows \ follows' : r.follower_id = c

\* C1: a delete of a post, comment, like or follow row issued by caller c
\* removes the row only if c is the row's owning user (user_id; follower_id
\* for follows) and otherwise leaves it in the store; every caller's read of
\* these tables returns every row.  (The delete is the statement on the
\* row's own table; ON DELETE CASCADE from a deleted post is not a delete
\* of the row by a caller.)
C1_OwnerOnlyDelete == []ReadsReturnEveryRow /\ [][DeleteOnlyOwn]_vars

\* a caller who does not own a like row tried to delete it, and the row stays
C1_Witness == last = Outcome("deleteLike", "hidden") /\ likes # {}

\* C2: an update of profile P by caller c takes effect only if c = P.id; an
\* update by any other caller leaves P unchanged.
C2_OwnerOnlyProfileUpdate ==
    [][last'.op = "updateProfile" /\ profiles' # profiles =>
          \A c \in Users, pid \in Users, nid \in Users, bio \in Bios :
              UpdateProfile(c, pid, nid, bio) =>
                  \A P \in profiles : P.id # c => P \in profiles']_vars

\* another caller tried to update an existing profile, which stays as it was
C2_Witness ==
    /\ last = Outcome("updateProfile", "hidden")
    /\ \E P \in profiles : P.bio = 0

\* C3: a read of friendships by caller c returns only rows of which c is
\* user_id_1 or user_id_2, and loadFriends(c) lists only users with whom c
\* shares an accepted row.
C3_FriendshipReadByParticipants ==
    \A c \in Users :
        /\ \A r \in SelectFriendships(c) : c = r.user_id_1 \/ c = r.user_id_2
        /\ \A f \in loadFriends(c) :
               \E r \in friendships : /\ r.status = "accepted"
                                      /\ {r.user_id_1, r.user_id_2} = {c, f}

\* a row exists that its participant reads and a third caller does not
C3_Witness ==
    \E r \in friendships, c \in Users :
        /\ c # r.user_id_1 /\ c # r.user_id_2
        /\ SelectFriendships(c) = {}
        /\ r \in SelectFriendships(r.user_id_1)

\* at most one like row per (post_id, user_id)
OneLikePerPair ==
    \A l1 \in likes, l2 \in likes :
        l1.post_id = l2.post_id /\ l1.user_id = l2.user_id => l1.id = l2.id

\* the insert of a handleLike call adds the row when the pair has none, and
\* fails on UNIQUE without a new row when the pair has one
InsertOnce ==
    last'.op = "insert" =>
    \A u \in Users, i \in 1..MaxCalls :
        ExecCall(u, i, FALSE) /\ calls[u][i].kind = "insert" =>
            IF \E r \in likes : r.post_id = mounted[u] /\ r.user_id = u
            THEN likes' = likes /\ calls'[u][i].res = "unique"
            ELSE mounted[u] \in PostIds /\ u \in ProfileIds =>
                     /\ calls'[u][i].res = "ok"
                     /\ likes' = likes \cup {LikeRow(mounted[u], u)}

\* C4: the store holds at most one like row per (post_id, user_id): the
\* first insert of a pair succeeds and a further one fails, also when two
\* overlapping handleLike calls both issue the insert.
C4_OneLikePerPair == []OneLikePerPair /\ [][InsertOnce]_vars

\* two inserts of one user's Post were in flight together: the store took
\* the first and refused the second
C4_Witness ==
    \E u \in Users :
        /\ Len(calls[u]) = 2
        /\ \A i \in 1..2 : calls[u][i].kind = "insert" /\ calls[u][i].st = "done"
        /\ {calls[u][1].res, calls[u][2].res} = {"ok", "unique"}
        /\ Cardinality({r \in likes : r.post_id = mounted[u] /\ r.user_id = u}) = 1

\* an insert statement of caller c adds a row only if c is its owning user
InsertOnlyOwn ==
    /\ last'.op \in {"insertPost", "insertComment", "insertLike", "insertFollow"}
    /\ <<posts, comments, likes, follows>>' # <<posts, comments, likes, follows>>
    =>  \A c \in Users, x \in Users :
            /\ InsertPost(c, x) => \A r \in posts' \ posts : r.user_id = c
            /\ \A pid \in Ids :
                   /\ InsertComment(c, pid, x) => \A r \in comments' \ comments : r.user_id = c
                   /\ InsertLike(c, pid, x) => \A r \in likes' \ likes : r.user_id = c
            /\ \A g \in Users :
                   InsertFollow(c, x, g) => \A r \in follows' \ follows : r.follower_id = c

\* C5: every post, comment, like and follow row the store accepts was
\* inserted by the caller named in its owning column; an insert whose owning
\* column differs from the caller is rejected.
C5_InsertOnlyOwn == [][InsertOnlyOwn]_vars

\* a caller tried to insert a post attributed to another user and was refused
C5_Witness == last = Outcome("insertPost", "denied")

\* C6: once a profile is deleted, no post, comment, like, follow or
\* friendship row references it in any of its profile columns.
C6_NoRowOfDeletedProfile == \A u \in Users \ ProfileIds : RowsOf(u) = {}

\* a profile that rows referenced has just been deleted, and rows of other
\* profiles remain
C6_Witness ==
    /\ last = Outcome("deleteProfile", "cascade")
    /\ \E u \in ProfileIds : RowsOf(u) # {}

\* C7: the status of a friendship row changes only from pending to accepted.
C7_StatusOnlyPendingToAccepted ==
    [][\A r \in friendships, n \in friendships' :
           r.id = n.id /\ r.status # n.status =>
               r.status = "pending" /\ n.status = "accepted"]_vars

\* C8: a friendship insert by caller c adds a row only if c = requested_by
\* and c is user_id_1 or user_id_2; any other insert adds no row.
C8_FriendRequestByRequester ==
    [][last'.op = "insertFriendship" /\ friendships' # friendships =>
          \A c \in Users, u1 \in Users, u2 \in Users, rb \in Users, st \in Statuses :
              InsertFriendship(c, u1, u2, rb, st) =>
                  /\ c = rb /\ (c = u1 \/ c = u2)
                  /\ friendships' = friendships \cup {FriendshipRow(u1, u2, rb, st)}]_vars

\* an insert the policy refuses was tried, and the table is still empty
C8_Witness == last = Outcome("insertFriendship", "denied") /\ friendships = {}

\* C9: handleFriendRequest of A for B leaves a pending row (A, B) requested
\* by A; handleAcceptRequest of B for that row leaves it accepted, after
\* which loadFriends of A contains B, loadFriends of B contains A, and B's
\* view shows A as a friend.
C9_RequestThenAccept ==
    [][/\ \A a \in Users, b \in Users :
              handleFriendRequest(a, b, FALSE) /\ last'.res = "ok" =>
                  \E r \in friendships' \ friendships :
                      /\ r.user_id_1 = a /\ r.user_id_2 = b
                      /\ r.status = "pending" /\ r.requested_by = a
       /\ \A b \in Users, r \in friendships :
              /\ r.status = "pending"
              /\ r.user_id_2 = b
              /\ handleAcceptRequest(b, r.id, FALSE)
              => /\ [r EXCEPT !.status = "accepted"] \in friendships'
                 /\ r.user_id_1 \in loadFriends(b)'
                 /\ b \in loadFriends(r.user_id_1)'
                 /\ r.user_id_1 \in friendIds'[b]]_vars

\* the recipient has accepted a request and sees the requester as a friend
C9_Witness ==
    /\ last = Outcome("handleAcceptRequest", "ok")
    /\ \E r \in friendships :
           /\ r.status = "accepted"
           /\ r.requested_by = r.user_id_1
           /\ r.user_id_1 \in friendIds[r.user_id_2]
           /\ r.user_id_2 \in loadFriends(r.user_id_1)

\* the like rows of post pid
LikesOf(pid) == {r \in likes : r.post_id = pid}

\* C10: used one action at a time, handleLike of user B on a post nobody has
\* liked, once the store has accepted the insert, leaves one like row and
\* likes.length = 1; the next handleLike of B, once the store has executed
\* the delete, leaves no like row and likes.length = 0.
C10_LikeThenUnlike ==
    [][\A u \in Users, i \in 1..MaxCalls :
           /\ ResumeCall(u, i)
           /\ calls[u][i].res = "ok"
           /\ mounted[u] \in PostIds
           /\ \A r \in LikesOf(mounted[u]) : r.user_id = u
           => /\ calls[u][i].kind = "insert" /\ calls[u][i].snap = <<>> =>
                  Len(likesState'[u]) = 1 /\ Cardinality(LikesOf(mounted[u])') = 1
              /\ calls[u][i].kind = "delete" /\ calls[u][i].snap = <<u>> =>
                  Len(likesState'[u]) = 0 /\ Cardinality(LikesOf(mounted[u])') = 0]_vars

\* a user has liked and then unliked another user's post: no like is left
C10_Witness ==
    /\ last = Outcome("unliked", "ok")
    /\ \E u \in Users :
           /\ \E p \in posts : p.id = mounted[u] /\ p.user_id # u
           /\ likesState[u] = <<>>
           /\ LikesOf(mounted[u]) = {}

\* no follow row has the follower as the user followed
NoSelfFollow == \A r \in follows : r.follower_id # r.following_id

\* the store's answer to an insert with follower_id = following_id is a
\* refusal, whoever the caller is
SelfFollowInsertFails ==
    \A c \in Users, f \in Users : ResInsertFollow(c, f, f) \in {"denied", "check"}

\* C11: an insert of a follow row with follower_id = following_id fails for
\* every caller, the follower included, and no state holds a follow row with
\* follower_id = following_id.
C11_NoSelfFollow == NoSelfFollow /\ SelfFollowInsertFails

\* a user tried to follow themself and the CHECK refused the row, while
\* another follow is in the store
C11_Witness == last = Outcome("insertFollow", "check") /\ follows # {}

\* no friendship row has one user as both participants
NoSelfFriendship == \A r \in friendships : r.user_id_1 # r.user_id_2

\* the store's answer to an insert with user_id_1 = user_id_2 is a refusal
SelfFriendshipInsertFails ==
    \A c \in Users, u \in Users, rb \in Users, st \in Statuses :
        ResInsertFriendship(c, u, u, rb, st) \in {"denied", "check"}

\* the store's answer to an update that sets one participant column of a row
\* to the value of the other is a refusal
SelfFriendshipUpdateFails ==
    \A c \in Users, r \in friendships :
        /\ ResUpdateFriendship(c, r.id, "user_id_1", r.user_id_2) \in {"hidden", "denied", "check"}
        /\ ResUpdateFriendship(c, r.id, "user_id_2", r.user_id_1) \in {"hidden", "denied", "check"}

\* C12: an insert of a friendship row with user_id_1 = user_id_2 fails for
\* every caller, no update makes the two equal, and no state holds a
\* friendship row with user_id_1 = user_id_2.
C12_NoSelfFriendship ==
    NoSelfFriendship /\ SelfFriendshipInsertFails /\ SelfFriendshipUpdateFails

\* a participant tried to set the other participant column to their own id
\* and the CHECK refused the update of the row
C12_Witness ==
    /\ last = Outcome("updateFriendship", "check")
    /\ \E r \in friendships : r.user_id_1 # r.user_id_2

\* C13: handleRejectRequest of a participant for a pending request, when the
\* call reaches the store, deletes the friendship row: after the reload the
\* request is not in the recipient's friendRequests and the store holds no
\* row for it.
C13_RejectDeletesRow ==
    [][last'.op = "handleRejectRequest" =>
          \A u \in Users, rid \in Ids :
              handleRejectRequest(u, rid, FALSE) =>
                  /\ \A r \in friendships' : r.id # rid
                  /\ rid \notin friendRequests'[u]]_vars

\* C14: every friendship row the store accepts on insert has status pending
\* in the state right after its creation.
C14_CreatedPending ==
    [][\A r \in friendships' :
           r.id \notin {x.id : x \in friendships} => r.status = "pending"]_vars

\* an update of a post leaves its user_id as it was
PostOwnerKept == \A p \in posts, q \in posts' : p.id = q.id => p.user_id = q.user_id

\* an update of profiles leaves the set of profile ids as it was
ProfileIdKept == last'.op = "updateProfile" => ProfileIds' = ProfileIds

\* C15: no update by any caller changes the id of a profile or the user_id
\* of a post.
C15_OwnerImmutable == [][PostOwnerKept /\ ProfileIdKept]_vars

\* the owner of a post tried to hand it to another user and the update was
\* refused: the post is still the owner's
C15_Witness ==
    /\ last = Outcome("updatePost", "denied")
    /\ posts # {}

\* the sets of u's Friends view after the step are what the store returns
\* after the step
Refetched(u) ==
    /\ followingIds'[u] = loadFollowing(u)'
    /\ friendIds'[u] = loadFriends(u)'
    /\ pendingRequestIds'[u] = loadSent(u)'
    /\ friendRequests'[u] = loadReceived(u)'

\* C16: when a handler of the Friends view that changes the store (follow,
\* unfollow, friend request, accept, reject) finishes, the view's friends,
\* following and pending-request sets are the ones read from the store after
\* the change.
C16_RefetchAfterMutation ==
    [][\A u \in Users, net \in BOOLEAN :
           /\ \A v \in Users :
                  /\ handleFollow(u, v, net) => Refetched(u)
                  /\ handleFriendRequest(u, v, net) => Refetched(u)
           /\ \A rid \in Ids :
                  /\ handleAcceptRequest(u, rid, net) => Refetched(u)
                  /\ handleRejectRequest(u, rid, net) => Refetched(u)]_vars

\* the store call returned an error
Failed(res) == res \in {"denied", "check", "unique", "fk", "net"}

\* C17: when the store call of a view handler fails (refused by a policy, by
\* a uniqueness constraint, or lost on the network), the handler leaves the
\* local state as it was before the call: likes after handleLike,
\* followingIds after handleFollow, pendingRequestIds after
\* handleFriendRequest, comments and commentText after handleComment.
C17_FailureKeepsViewState ==
    [][\A u \in Users :
           /\ \A i \in 1..MaxCalls :
                  /\ ResumeCall(u, i)
                  /\ calls[u][i].kind \in {"insert", "delete"}
                  /\ Failed(calls[u][i].res)
                  => likesState'[u] = calls[u][i].snap
           /\ \A v \in Users, net \in BOOLEAN :
                  /\ handleFollow(u, v, net) /\ Failed(last'.res) =>
                         followingIds'[u] = followingIds[u]
                  /\ handleFriendRequest(u, v, net) /\ Failed(last'.res) =>
                         pendingRequestIds'[u] = pendingRequestIds[u]
           /\ \A net \in BOOLEAN :
                  handleComment(u, net) /\ Failed(last'.res) =>
                      /\ commentsState'[u] = commentsState[u]
                      /\ commentText'[u] = commentText[u]]_vars

\* every reference of a row is to a row that exists
ReferencesExist ==
    /\ \A r \in posts : r.user_id \in ProfileIds
    /\ \A r \in comments \cup likes : r.post_id \in PostIds /\ r.user_id \in ProfileIds
    /\ \A r \in follows : r.follower_id \in ProfileIds /\ r.following_id \in ProfileIds
    /\ \A r \in friendships :
           {r.user_id_1, r.user_id_2, r.requested_by} \subseteq ProfileIds

\* a handleDeletePost the store executes leaves no comment or like on the post
DeletePostRemovesAll ==
    last'.op = "handleDeletePost" /\ last'.res \in {"ok", "cascade"} =>
        \A u \in Users, pid \in Ids :
            handleDeletePost(u, pid, TRUE, FALSE) =>
                /\ pid \notin PostIds'
                /\ \A r \in comments' \cup likes' : r.post_id # pid

\* C18: in every state every comment and like references an existing post,
\* and every post, comment, like, follow and friendship references only
\* existing profiles; handleDeletePost also removes all comments and likes
\* on the post, those of other users included.
C18_ReferentialIntegrity == []ReferencesExist /\ [][DeletePostRemovesAll]_vars

\* the owner deleted a post that another user had commented on or liked,
\* and rows of other kinds remain
C18_Witness ==
    /\ last = Outcome("handleDeletePost", "cascade")
    /\ posts = {} /\ comments = {} /\ likes = {}

\* C19: the store holds at most one friendship row per unordered pair of
\* users, whatever the order of the requests the Friends views send.
C19_OneFriendshipPerPair ==
    \A r1 \in friendships, r2 \in friendships :
        {r1.user_id_1, r1.user_id_2} = {r2.user_id_1, r2.user_id_2} => r1.id = r2.id

\* C20: no update the store accepts changes user_id_1, user_id_2 or
\* requested_by of a friendship row, so a user who was not a participant
\* when the row was created never becomes one.
C20_ParticipantsKept ==
    [][\A r \in friendships, n \in friendships' :
           r.id = n.id =>
               /\ n.user_id_1 = r.user_id_1
               /\ n.user_id_2 = r.user_id_2
               /\ n.requested_by = r.requested_by]_vars

\* C21: when the Post component of a user has no call in flight, every call
\* it made having succeeded, the user's id is in its likes list exactly when
\* the store holds a like row of the user for the post, and the likes list
\* holds no id twice.
C21_IdleLikesMatchStore ==
    \A u \in Users :
        mounted[u] # 0 /\ calls[u] = <<>> =>
            /\ Includes(likesState[u], u) <=>
                   \E r \in likes : r.post_id = mounted[u] /\ r.user_id = u
            /\ \A i \in 1..Len(likesState[u]), j \in 1..Len(likesState[u]) :
                   likesState[u][i] = likesState[u][j] => i = j

====
